---- MODULE Spec2Model ----
(***************************************************************************)
(* g-flite: split a text into word chunks, run them as subtasks of one     *)
(* Golem task, poll the task to completion and concatenate the per-chunk   *)
(* WAVE results.  The model follows App::run (src/src/app.rs) and          *)
(* TaskBuilder (src/src/task.rs).                                          *)
(*                                                                         *)
(* Text is a sequence of character codes (32 = ' ', 10 = '\n', 97 = 'a').  *)
(* A subtask name "subtask<i>" is the sequence of the decimal digits of i: *)
(* every name carries the same prefix, so names order as their digits do.  *)
(* A path is [dir, sub, file]: <workspace>/<dir>/subtask<sub>/<file>.      *)
(* Progress is kept in percent, the unit of old_progress (fraction * 100). *)
(***************************************************************************)
EXTENDS Integers, Sequences, FiniteSets, TLC

VARIABLES
    input,          \* contents of the input text file
    input_ok,       \* whether the input file can be read as UTF-8
    subtasks,       \* App.subtasks, the requested number of subtasks
    abort,          \* App.abort, the AtomicBool the Ctrl-C handler stores into
    pc,             \* position of the main thread in App::run
    frag,           \* the CompFragment passed from one stage to the next
    chunks,         \* Vec<String> returned by split_input
    workspace,      \* set of paths created under the workspace directory
    in_files,       \* contents of in/subtask<i>/in.txt, by subtask name
    task,           \* Task { json.options.subtasks, expected_output_paths }
    task_id,        \* Option<String> of create_task's response
    calls,          \* number of calls made to the backend, by method
    replies,        \* the backend's latest reply to connect, create_task, delete_task
    err_path,       \* the path a filesystem error of send_to_golem names, if any
    late_polls,     \* get_task calls started with the abort flag already set
    tmp_dir,        \* who created <temp dir>/g_flite_<secs>: nobody, this run, another run
    timeout_arg,    \* the text given for --task_timeout
    task_timeout,   \* the result of Timeout::from_str on it
    old_progress,   \* send_to_golem's old_progress
    bar_pos,        \* position of the ProgressBar
    last_resp,      \* the response of the latest get_task call
    history,        \* what the progress bar was sent since the last Restarted
    files,          \* WAVE files under out/, written by the backend
    opened,         \* paths combine_output has opened, in order
    out_wav,        \* the output WAVE file
    outcome,        \* what App::run returned: Success, CtrlC or Err
    err             \* the error message of an Err outcome

vars == <<input, input_ok, subtasks, abort, pc, frag, chunks, workspace,
          in_files, task, task_id, calls, replies, old_progress, bar_pos,
          last_resp, history, timeout_arg, task_timeout, err_path,
          late_polls, tmp_dir, files, opened, out_wav, outcome, err>>

(***************************************************************************)
(* Bounds of the model.                                                    *)
(***************************************************************************)
\* longest text the partitioner is run on in SpecSplit
MaxTextLen == 5
\* largest subtask count in SpecSplit
MaxSplit == 4
\* largest word count of the input of a whole run
MaxWords == 11
\* largest subtask count of a whole run
MaxSubtasks == 11
\* largest number of get_task calls in a run
MaxPolls == 3
\* largest number of result artifacts in SpecCombine
MaxArtifacts == 3
\* longest sample sequence of an artifact in SpecCombine
MaxSamples == 1
\* largest word count and subtask count of a run in SpecLoop
MaxLoopWords == 2
\* largest number of ':'-separated fields of a timeout text in SpecTimeout
MaxFields == 3

(***************************************************************************)
(* Strings.                                                                *)
(***************************************************************************)
\* char::is_whitespace, for the characters of the model's alphabet
IsWhitespace(c) == c \in {9, 10, 13, 32}

RECURSIVE SplitFrom(_, _, _)
SplitFrom(s, i, cur) ==
    IF i > Len(s)
    THEN IF cur = <<>> THEN <<>> ELSE <<cur>>
    ELSE IF IsWhitespace(s[i])
         THEN IF cur = <<>>
              THEN SplitFrom(s, i + 1, <<>>)
              ELSE <<cur>> \o SplitFrom(s, i + 1, <<>>)
         ELSE SplitFrom(s, i + 1, Append(cur, s[i]))

\* str::split_whitespace: the maximal runs of non-whitespace characters
split_whitespace(s) == SplitFrom(s, 1, <<>>)

RECURSIVE join(_)
\* [&str]::join(" ")
join(words) ==
    IF words = <<>> THEN <<>>
    ELSE IF Len(words) = 1 THEN words[1]
    ELSE words[1] \o <<32>> \o join(Tail(words))

RECURSIVE Decimal(_)
\* the digits format!("{}", i) prints
Decimal(i) == IF i < 10 THEN <<i>> ELSE Append(Decimal(i \div 10), i % 10)

RECURSIVE StrLess(_, _)
\* String's Ord: lexicographic, a proper prefix first
StrLess(a, b) ==
    IF a = <<>> THEN b # <<>>
    ELSE IF b = <<>> THEN FALSE
    ELSE IF a[1] # b[1] THEN a[1] < b[1]
    ELSE StrLess(Tail(a), Tail(b))

(***************************************************************************)
(* The partitioner, App::split_input.                                      *)
(***************************************************************************)
\* the mutant of NumWords: the quotient is rounded down
NumWords_Floor(word_count, n) == word_count \div n

\* (word_count as f64 / subtasks as f64).ceil() as usize, for subtasks >= 1
NumWords(word_count, n) == (word_count + n - 1) \div n

RECURSIVE SplitLoop(_, _, _, _, _)
\* the loop over the words: push to acc, flush acc when it holds num_words
SplitLoop(words, i, acc, out, num_words) ==
    IF i > Len(words) THEN [acc |-> acc, chunks |-> out]
    ELSE LET acc1 == Append(acc, words[i])
         IN  IF Len(acc1) = num_words
             THEN SplitLoop(words, i + 1, <<>>, Append(out, acc1), num_words)
             ELSE SplitLoop(words, i + 1, acc1, out, num_words)

\* the mutant of FlushRest: the words left in acc after the loop are lost
FlushRest_Dropped(r) == r.chunks

\* if !acc.is_empty() { chunks.push(acc) }
FlushRest(r) == IF r.acc # <<>> THEN Append(r.chunks, r.acc) ELSE r.chunks

\* the word lists of the chunks of `contents` for n subtasks
SplitWords(contents, n) ==
    LET words == split_whitespace(contents)
        num_words == NumWords(Len(words), n)
    IN  FlushRest(SplitLoop(words, 1, <<>>, <<>>, num_words))

\* the value of split_input: Ok(Success(chunks)), or Err when the file
\* cannot be read
split_input(contents, readable, n) ==
    IF ~readable
    THEN [ok |-> FALSE, err |-> "reading from", chunks |-> <<>>]
    ELSE LET cw == SplitWords(contents, n)
         IN  [ok |-> TRUE, err |-> "",
              chunks |-> [i \in 1..Len(cw) |-> join(cw[i])]]

(***************************************************************************)
(* Files and paths.                                                        *)
(***************************************************************************)
Path(dir, sub, file) == [dir |-> dir, sub |-> sub, file |-> file]

\* hound::WavSpec of a 16-bit integer mono file with the given sample rate
WavSpec(rate) == [channels |-> 1, sample_rate |-> rate, bits_per_sample |-> 16]

\* a WAVE file: its spec and its samples
Wav(spec, samples) == [exists |-> TRUE, spec |-> spec, samples |-> samples]

\* a path at which there is no file
NoFile == [exists |-> FALSE, spec |-> WavSpec(0), samples |-> <<>>]

ReadFile(fls, p) == IF p \in DOMAIN fls THEN fls[p] ELSE NoFile

(***************************************************************************)
(* TaskBuilder (src/src/task.rs).                                          *)
(***************************************************************************)
\* BTreeMap::insert
Insert(m, k, v) == [x \in (DOMAIN m) \cup {k} |-> IF x = k THEN v ELSE m[x]]

\* the keys of a BTreeMap<String, _> in the order its iterator yields them
BTreeOrder(m) ==
    LET ks == DOMAIN m
        rank(k) == Cardinality({j \in ks : StrLess(j, k)}) + 1
    IN  [i \in 1..Cardinality(ks) |-> CHOOSE k \in ks : rank(k) = i]

TaskBuilder_new == [subtask_count |-> 0, subtasks |-> <<>>]

\* the mutant of add_subtask: subtask_count is not advanced
add_subtask_NoCount(tb, data) ==
    [subtask_count |-> tb.subtask_count,
     subtasks |-> Insert(tb.subtasks, Decimal(tb.subtask_count), data)]

\* add_subtask: the data goes under the name subtask<subtask_count>
add_subtask(tb, data) ==
    [subtask_count |-> tb.subtask_count + 1,
     subtasks |-> Insert(tb.subtasks, Decimal(tb.subtask_count), data)]

RECURSIVE AddSubtasks(_, _)
\* for chunk in chunks { task_builder.add_subtask(chunk) }
AddSubtasks(tb, cs) ==
    IF cs = <<>> THEN tb ELSE AddSubtasks(add_subtask(tb, Head(cs)), Tail(cs))

\* the filesystem operations of build, in the order it makes them
BuildOps(names) ==
    [j \in 1..(4 + 3 * Len(names)) |->
        IF j = 1 THEN [op |-> "create_dir", path |-> Path("in", <<>>, "")]
        ELSE IF j = 2 THEN [op |-> "write", path |-> Path("in", <<>>, "flite.js")]
        ELSE IF j = 3 THEN [op |-> "write", path |-> Path("in", <<>>, "flite.wasm")]
        ELSE IF j = 4 THEN [op |-> "create_dir", path |-> Path("out", <<>>, "")]
        ELSE LET nm == names[((j - 5) \div 3) + 1]
                 step == (j - 5) % 3
             IN  IF step = 0 THEN [op |-> "create_dir", path |-> Path("in", nm, "")]
                 ELSE IF step = 1 THEN [op |-> "create_dir", path |-> Path("out", nm, "")]
                 ELSE [op |-> "write", path |-> Path("in", nm, "in.txt")]]

EmptyTask == [subtasks_map |-> <<>>, expected_output_paths |-> <<>>]

\* the mutant of ops_done: build goes on after the operation that failed
ops_done_GoesOn(n_ops, fail_at) == n_ops

\* the operations build completes out of n_ops when the fail_at-th fails
\* (0: none): each is followed by `?`, which returns at the first error
ops_done(n_ops, fail_at) == IF fail_at = 0 THEN n_ops ELSE fail_at - 1

\* TaskBuilder::build, whose fail_at-th filesystem operation fails (0: none)
build(tb, fail_at) ==
    LET names == BTreeOrder(tb.subtasks)
        ops == BuildOps(names)
        n_ok == ops_done(Len(ops), fail_at)
        n_sub == IF n_ok < 4 THEN 0 ELSE (n_ok - 4) \div 3
    IN  [ok |-> fail_at = 0,
         err |-> IF fail_at = 0 THEN ""
                 ELSE IF ops[fail_at].op = "create_dir" THEN "creating directory"
                 ELSE "writing to file",
         err_path |-> IF fail_at = 0 THEN Path("", <<>>, "") ELSE ops[fail_at].path,
         created |-> {ops[j].path : j \in 1..n_ok},
         in_txt |-> [nm \in {names[i] : i \in 1..n_sub} |-> tb.subtasks[nm]],
         task |-> IF fail_at # 0 THEN EmptyTask
                  ELSE [subtasks_map |->
                            [nm \in DOMAIN tb.subtasks |->
                                [exec_args |-> <<"in.txt", "in.wav">>,
                                 output_file_paths |-> <<"in.wav">>]],
                        expected_output_paths |->
                            [i \in 1..Len(names) |-> Path("out", names[i], "in.wav")]]]

(***************************************************************************)
(* The backend and the workload.                                           *)
(***************************************************************************)
\* the workload (flite.js, flite.wasm): a deterministic function from the
\* input text to a WAVE file; here, one sample per character of the text
Flite(data) == Wav(WavSpec(16000), data)

\* the files under out/ once the backend has run every subtask of the task:
\* subtask nm reads in/<nm>/in.txt and writes out/<nm>/in.wav
BackendOutputs(inputs) ==
    [p \in {Path("out", nm, "in.wav") : nm \in DOMAIN inputs} |-> Flite(inputs[p.sub])]

\* progress values (in percent) a get_task response may carry
ProgressValues == {0, 20, 50, 100}

\* TaskStatus; Computing stands for every status the match leaves to `_`
Statuses == {"Computing", "Restarted", "Aborted", "Timeout", "Finished"}

\* what get_task may answer: an RPC error, Ok(None), or Ok(Some(task_info))
\* whose progress is None (<<>>) or Some(p) (<<p>>)
Responses ==
    {[kind |-> "rpc_err", progress |-> <<>>, status |-> "-"],
     [kind |-> "none", progress |-> <<>>, status |-> "-"]}
    \cup [kind : {"info"},
          progress : {<<>>} \cup {<<p>> : p \in ProgressValues},
          status : Statuses]

NoResponse == [kind |-> "-", progress |-> <<>>, status |-> "-"]

(***************************************************************************)
(* The poll loop's handling of one get_task response (app.rs 182-216).     *)
(***************************************************************************)
\* (x.round() as u64) for x = num / den, den > 0: halves round away from
\* zero and the cast saturates, so a negative x gives 0 (the cast is defined
\* so since Rust 1.45; older compilers leave it undefined for x < 0)
RoundAsU64(num, den) == IF num <= 0 THEN 0 ELSE (2 * num + den) \div (2 * den)

\* the mutant of StatusArm: Timeout falls through to `_ => {}`
StatusArm_TimeoutIgnored(status) ==
    IF status = "Restarted" THEN "restart"
    ELSE IF status = "Aborted" THEN "aborted"
    ELSE IF status = "Finished" THEN "break"
    ELSE "continue"

\* the mutant of StatusArm: Finished falls through to `_ => {}`
StatusArm_FinishedIgnored(status) ==
    IF status = "Restarted" THEN "restart"
    ELSE IF status = "Aborted" THEN "aborted"
    ELSE IF status = "Timeout" THEN "timeout"
    ELSE "continue"

\* the mutant of StatusArm: the loop gives up on a task that is not done
StatusArm_GivesUp(status) ==
    IF status = "Restarted" THEN "restart"
    ELSE IF status = "Aborted" THEN "aborted"
    ELSE IF status = "Finished" THEN "break"
    ELSE "timeout"

\* match task_info.status { ... }
StatusArm(status) ==
    IF status = "Restarted" THEN "restart"
    ELSE IF status = "Aborted" THEN "aborted"
    ELSE IF status = "Timeout" THEN "timeout"
    ELSE IF status = "Finished" THEN "break"
    ELSE "continue"

\* one iteration of the loop after the checkpoint: what it does (next: loop,
\* break or err) and the values it leaves in old_progress and the bar
handle_response(resp, old, bar, num_tasks) ==
    IF resp.kind = "rpc_err"
    THEN [next |-> "err", err |-> "polling for task", old |-> old, bar |-> bar]
    ELSE IF resp.kind = "none"
    THEN [next |-> "err", err |-> "parsing task info from Golem", old |-> old, bar |-> bar]
    ELSE IF resp.progress = <<>>
    THEN [next |-> "err", err |-> "reading task's progress", old |-> old, bar |-> bar]
    ELSE
        LET progress == resp.progress[1]
            old1 == IF progress # old THEN progress ELSE old
            bar1 == IF progress # old
                    THEN bar + RoundAsU64((progress - old) * num_tasks, 100)
                    ELSE bar
            arm == StatusArm(resp.status)
        IN  IF arm = "restart"
            THEN [next |-> "loop", err |-> "", old |-> 0, bar |-> bar1]
            ELSE IF arm = "aborted"
            THEN [next |-> "err",
                  err |-> "waiting for task to complete: task aborted by someone else",
                  old |-> old1, bar |-> bar1]
            ELSE IF arm = "timeout"
            THEN [next |-> "err",
                  err |-> "waiting for task to complete: task timed out",
                  old |-> old1, bar |-> bar1]
            ELSE IF arm = "break"
            THEN [next |-> "break", err |-> "", old |-> old1, bar |-> bar1]
            ELSE [next |-> "loop", err |-> "", old |-> old1, bar |-> bar1]

\* nothing was sent to the bar yet: `ok` says that the progress values read
\* so far never decreased but across a Restarted response and that at most
\* one response was Restarted, `resets` counts the Restarted responses, and
\* `since_reset` sums what bar.inc was given after the last of them
NoHistory == [ok |-> TRUE, resets |-> 0, since_reset |-> 0]

\* the history after the response resp, read when old_progress was `old`,
\* made the loop give `inc` to bar.inc (app.rs 194-205); a history that is
\* no longer `ok` is not followed further
NextHistory(hist, resp, old, inc) ==
    IF resp.kind # "info" \/ resp.progress = <<>> THEN hist
    ELSE LET restarted == resp.status = "Restarted"
             resets == hist.resets + (IF restarted THEN 1 ELSE 0)
             ok == hist.ok /\ resets <= 1 /\ (restarted \/ resp.progress[1] >= old)
         IN  IF ~ok THEN [ok |-> FALSE, resets |-> 0, since_reset |-> 0]
             ELSE [ok |-> TRUE, resets |-> resets,
                   since_reset |-> IF restarted THEN 0 ELSE hist.since_reset + inc]

(***************************************************************************)
(* The aggregator, App::combine_output.                                    *)
(***************************************************************************)
RECURSIVE CombineRest(_, _, _, _)
\* for expected_file in task.expected_output_paths { open; copy samples }
CombineRest(rest, fls, out, seen) ==
    IF rest = <<>>
    THEN [res |-> "Success", err |-> "", opened |-> seen, out |-> out]
    ELSE LET f == ReadFile(fls, Head(rest))
         IN  IF ~f.exists
             THEN [res |-> "Err", err |-> "opening WAVE file",
                   opened |-> Append(seen, Head(rest)), out |-> out]
             ELSE CombineRest(Tail(rest), fls,
                              [out EXCEPT !.samples = @ \o f.samples],
                              Append(seen, Head(rest)))

\* the mutant of CopyFirst: the first artifact's samples are not copied
CopyFirst_Skipped(first) == Wav(first.spec, <<>>)

\* WavWriter::create(output, spec) and the copy of the first reader's samples
CopyFirst(first) == Wav(first.spec, first.samples)

\* the mutant of TakeFragment: a CtrlC fragment is combined like a Success
TakeFragment_NoCtrlC(fragment) == "Success"

\* match task { Success(task) => task, CtrlC => return Ok(CtrlC) }
TakeFragment(fragment) == fragment

\* the mutant of pop_front: an empty list yields a path of its own making
pop_front_Invented(paths) ==
    IF paths = <<>>
    THEN [first |-> <<Path("out", Decimal(0), "in.wav")>>, rest |-> <<>>]
    ELSE [first |-> <<Head(paths)>>, rest |-> Tail(paths)]

\* VecDeque::pop_front: the first path, if any, and the paths left
pop_front(paths) ==
    IF paths = <<>>
    THEN [first |-> <<>>, rest |-> <<>>]
    ELSE [first |-> <<Head(paths)>>, rest |-> Tail(paths)]

\* combine_output on the fragment, the task's paths and the files under
\* out/; out0 is the output file before the call, create_ok whether the
\* output file can be created
combine_output(fragment, paths, fls, out0, create_ok) ==
    IF TakeFragment(fragment) = "CtrlC"
    THEN [res |-> "CtrlC", err |-> "", opened |-> <<>>, out |-> out0]
    ELSE LET popped == pop_front(paths)
         IN  IF popped.first = <<>>
             THEN [res |-> "Err",
                   err |-> "combining results: no results received from Golem",
                   opened |-> <<>>, out |-> out0]
             ELSE LET first == ReadFile(fls, popped.first[1])
                  IN  IF ~first.exists
                      THEN [res |-> "Err", err |-> "opening WAVE file",
                            opened |-> popped.first, out |-> out0]
                      ELSE IF ~create_ok
                      THEN [res |-> "Err", err |-> "creating WAVE file",
                            opened |-> popped.first, out |-> out0]
                      ELSE CombineRest(popped.rest, fls, CopyFirst(first),
                                       popped.first)

(***************************************************************************)
(* Timeout (src/src/timeout.rs).                                           *)
(***************************************************************************)
IsDigit(c) == c \in 48..57

RECURSIVE trim_left(_)
\* str::trim_left
trim_left(s) ==
    IF s # <<>> /\ IsWhitespace(Head(s)) THEN trim_left(Tail(s)) ELSE s

RECURSIVE DigitPrefix(_, _)
\* the number of leading digits of s, counted up to max
DigitPrefix(s, max) ==
    IF max = 0 \/ s = <<>> \/ ~IsDigit(Head(s)) THEN 0
    ELSE 1 + DigitPrefix(Tail(s), max - 1)

RECURSIVE ToNumber(_)
\* str::parse::<i64> on a string of digits
ToNumber(ds) ==
    IF ds = <<>> THEN 0
    ELSE 10 * ToNumber(SubSeq(ds, 1, Len(ds) - 1)) + (ds[Len(ds)] - 48)

\* the scan of a number of min to max digits at the start of s
number(s, min, max) ==
    LET upto == DigitPrefix(s, max)
    IN  IF upto < min
        THEN [err |-> IF s = <<>> THEN "premature end of input"
                      ELSE "input contains invalid characters",
              v |-> 0, rest |-> s]
        ELSE [err |-> "", v |-> ToNumber(SubSeq(s, 1, upto)),
              rest |-> SubSeq(s, upto + 1, Len(s))]

\* the items of the format "%H:%M:%S": a numeric field or the literal ':'
FormatItems == <<"H", ":", "M", ":", "S">>

RECURSIVE ParseItems(_, _, _)
\* the parse of s item by item; fields collects the numbers read
ParseItems(s, items, fields) ==
    IF items = <<>>
    THEN [err |-> IF s # <<>> THEN "trailing input" ELSE "", fields |-> fields]
    ELSE IF Head(items) = ":"
    THEN IF s = <<>> THEN [err |-> "premature end of input", fields |-> fields]
         ELSE IF Head(s) # 58
         THEN [err |-> "input contains invalid characters", fields |-> fields]
         ELSE ParseItems(Tail(s), Tail(items), fields)
    ELSE LET r == number(trim_left(s), 1, 2)
         IN  IF r.err # "" THEN [err |-> r.err, fields |-> fields]
             ELSE ParseItems(r.rest, Tail(items), Append(fields, r.v))

\* NaiveTime::from_hms: seconds since midnight and the fraction in
\* nanoseconds
from_hms(hour, min, sec) == [secs |-> hour * 3600 + min * 60 + sec, frac |-> 0]

\* the time of the fields read: an hour to 23, a minute to 59, a second to
\* 59, or 60 for a leap second, kept as second 59 and a fraction of 10^9 ns
to_naive_time(fields) ==
    IF fields[1] > 23 \/ fields[2] > 59 \/ fields[3] > 60
    THEN [err |-> "input is out of range", time |-> from_hms(0, 0, 0)]
    ELSE IF fields[3] = 60
    THEN [err |-> "",
          time |-> [secs |-> fields[1] * 3600 + fields[2] * 60 + 59,
                    frac |-> 1000000000]]
    ELSE [err |-> "", time |-> from_hms(fields[1], fields[2], fields[3])]

\* NaiveTime::parse_from_str(value, "%H:%M:%S")
parse_from_str(value) ==
    LET p == ParseItems(value, FormatItems, <<>>)
    IN  IF p.err # "" THEN [err |-> p.err, time |-> from_hms(0, 0, 0)]
        ELSE to_naive_time(p.fields)

\* the mutant of from_str: the time 00:00:00 is let through
from_str_ZeroAllowed(value) ==
    LET t == parse_from_str(value)
    IN  [ok |-> t.err = "", err |-> t.err, time |-> t.time]

\* Timeout::from_str
from_str(value) ==
    LET t == parse_from_str(value)
    IN  IF t.err # "" THEN [ok |-> FALSE, err |-> t.err, time |-> t.time]
        ELSE IF t.time = from_hms(0, 0, 0)
        THEN [ok |-> FALSE, err |-> "Timeout of '00:00:00' is not allowed",
              time |-> t.time]
        ELSE [ok |-> TRUE, err |-> "", time |-> t.time]

\* no text was parsed yet
NoTimeout == [ok |-> FALSE, err |-> "-", time |-> from_hms(0, 0, 0)]

\* "00:10:00", the default of --task_timeout
DefaultTimeout == <<48, 48, 58, 49, 48, 58, 48, 48>>

\* the options as structopt hands them to the run: the timeout is parsed
Configured ==
    /\ timeout_arg = DefaultTimeout
    /\ task_timeout = from_str(DefaultTimeout)

(***************************************************************************)
(* App::run: the main thread and the Ctrl-C handler.                       *)
(***************************************************************************)
\* no call was answered yet
NoReplies == [connect |-> "-", create_task |-> "-", delete_task |-> "-"]

NoCalls == [connect |-> 0, create_task |-> 0, get_task |-> 0, delete_task |-> 0]

\* the state of a run before split_input, but for its inputs
Fresh ==
    /\ abort = FALSE
    /\ chunks = <<>>
    /\ workspace = {}
    /\ in_files = <<>>
    /\ task_id = <<>>
    /\ calls = NoCalls
    /\ replies = NoReplies
    /\ old_progress = 0
    /\ bar_pos = 0
    /\ last_resp = NoResponse
    /\ history = NoHistory
    /\ opened = <<>>
    /\ out_wav = NoFile
    /\ outcome = "running"
    /\ err = ""
    /\ err_path = <<>>
    /\ late_polls = 0

\* a text of wc one-letter words 'a', 'b', ... separated by single spaces
\* and ended by a newline
RunText(wc) == join([i \in 1..wc |-> <<96 + i>>]) \o <<10>>

Init ==
    /\ input \in {RunText(wc) : wc \in 0..MaxWords}
    /\ input_ok \in BOOLEAN
    /\ subtasks \in 1..MaxSubtasks
    /\ pc = "split"
    /\ frag = "none"
    /\ files = <<>>
    /\ task = EmptyTask
    /\ Configured
    /\ tmp_dir = "absent"
    /\ Fresh

\* the run ends with Err(msg)
Fail(msg) ==
    /\ pc' = "done"
    /\ outcome' = "Err"
    /\ err' = msg

\* the mutant of ctrlc_handler: the handler flips the flag
ctrlc_handler_Toggle(flag) == ~flag

\* the closure given to ctrlc::set_handler: abort.store(true), whatever the
\* flag held
ctrlc_handler(flag) == TRUE

\* a Ctrl-C while the run lasts (app.rs 293-296): the handler runs on its
\* own thread
CtrlC ==
    /\ pc # "done"
    /\ abort' = ctrlc_handler(abort)
    /\ UNCHANGED <<err_path, late_polls, tmp_dir, timeout_arg, task_timeout,
                   replies, history, input, input_ok, subtasks, pc, frag,
                   chunks, workspace, in_files, task, task_id, calls,
                   old_progress, bar_pos, last_resp, files, opened, out_wav,
                   outcome, err>>

\* split_input (app.rs 45-92)
SplitInput ==
    /\ pc = "split"
    /\ LET r == split_input(input, input_ok, subtasks)
       IN  IF r.ok
           THEN /\ chunks' = r.chunks
                /\ frag' = "Success"
                /\ pc' = "workspace"
                /\ UNCHANGED <<outcome, err>>
           ELSE /\ Fail(r.err)
                /\ UNCHANGED <<chunks, frag>>
    /\ UNCHANGED <<err_path, late_polls, tmp_dir, timeout_arg, task_timeout, replies, history, input, input_ok, subtasks, abort, workspace, in_files, task,
                   task_id, calls, old_progress, bar_pos, last_resp, files,
                   opened, out_wav>>

\* the mutant of create_dir: an existing directory is taken over, as
\* create_dir_all would
create_dir_Existing(exists, io_ok) == io_ok

\* fs::create_dir: fails when the path exists already, or for any other
\* reason the system has (io_ok false)
create_dir(exists, io_ok) == ~exists /\ io_ok

\* send_to_golem, "prepare workspace" (app.rs 106-119)
PrepareWorkspace ==
    /\ pc = "workspace"
    /\ frag = "Success"
    /\ \E io_ok \in BOOLEAN :
        IF create_dir(tmp_dir # "absent", io_ok)
        THEN /\ workspace' = {Path("", <<>>, "")}
             /\ tmp_dir' = IF tmp_dir = "absent" THEN "own" ELSE tmp_dir
             /\ pc' = "build"
             /\ UNCHANGED <<outcome, err, err_path>>
        ELSE /\ Fail("creating directory")
             /\ err_path' = <<Path("", <<>>, "")>>
             /\ UNCHANGED <<workspace, tmp_dir>>
    /\ UNCHANGED <<late_polls, timeout_arg, task_timeout, replies, history,
                   input, input_ok, subtasks, abort, frag, chunks, in_files,
                   task, task_id, calls, old_progress, bar_pos, last_resp,
                   files, opened, out_wav>>

\* send_to_golem, "prepare Golem task" (app.rs 124-135)
BuildTask ==
    /\ pc = "build"
    /\ LET tb == AddSubtasks(TaskBuilder_new, chunks)
       IN  \E fail_at \in 0..(4 + 3 * tb.subtask_count) :
            LET b == build(tb, fail_at)
            IN  /\ workspace' = workspace \cup b.created
                /\ in_files' = b.in_txt
                /\ task' = b.task
                /\ IF b.ok
                   THEN pc' = "connect" /\ UNCHANGED <<outcome, err, err_path>>
                   ELSE Fail(b.err) /\ err_path' = <<b.err_path>>
    /\ UNCHANGED <<late_polls, tmp_dir, timeout_arg, task_timeout, replies,
                   history, input, input_ok, subtasks, abort, frag, chunks,
                   task_id, calls, old_progress, bar_pos, last_resp, files,
                   opened, out_wav>>

\* send_to_golem, "connect to Golem" (app.rs 138-154)
Connect ==
    /\ pc = "connect"
    /\ calls' = [calls EXCEPT !.connect = @ + 1]
    /\ \E connected \in BOOLEAN :
        /\ replies' = [replies EXCEPT !.connect = IF connected THEN "ok" ELSE "rpc_err"]
        /\ IF connected
           THEN pc' = "create" /\ UNCHANGED <<outcome, err>>
           ELSE Fail("connecting to Golem")
    /\ UNCHANGED <<err_path, late_polls, tmp_dir, timeout_arg, task_timeout, history, input, input_ok, subtasks, abort, frag, chunks,
                   workspace, in_files, task, task_id, old_progress, bar_pos,
                   last_resp, files, opened, out_wav>>

\* the mutant of create_task_error: a response without a task id is taken
create_task_error_NoIdAccepted(reply) ==
    IF reply = "rpc_err" THEN "creating Golem task" ELSE ""

\* the mutant of create_task_error: a failed call is taken for a success
create_task_error_FailureIgnored(reply) ==
    IF reply = "no_id" THEN "extracting Golem task's id" ELSE ""

\* the error create_task's reply makes send_to_golem return ("": none); the
\* reply is an RPC error, a response without a task id, or one with an id
create_task_error(reply) ==
    IF reply = "rpc_err" THEN "creating Golem task"
    ELSE IF reply = "no_id" THEN "extracting Golem task's id"
    ELSE ""

\* send_to_golem, create_task (app.rs 159-173)
CreateTask ==
    /\ pc = "create"
    /\ calls' = [calls EXCEPT !.create_task = @ + 1]
    /\ \E r \in {"rpc_err", "no_id", "id"} :
        /\ replies' = [replies EXCEPT !.create_task = r]
        /\ IF create_task_error(r) # ""
           THEN /\ Fail(create_task_error(r))
                /\ UNCHANGED <<task_id, old_progress, bar_pos>>
           ELSE /\ task_id' = IF r = "id" THEN <<"id">> ELSE <<>>
                /\ old_progress' = 0
                /\ bar_pos' = 0
                /\ pc' = "check"
                /\ UNCHANGED <<outcome, err>>
    /\ UNCHANGED <<err_path, late_polls, tmp_dir, timeout_arg, task_timeout, history, input, input_ok, subtasks, abort, frag, chunks,
                   workspace, in_files, task, last_resp, files, opened, out_wav>>

\* the mutant of checkpoint: the task is cancelled whatever the flag holds
checkpoint_AlwaysCancel(flag, deleted) == IF deleted THEN "ctrlc" ELSE "err"

\* the mutant of checkpoint: a failed delete_task call counts as a cancel
checkpoint_DeleteErrorIgnored(flag, deleted) == IF flag THEN "ctrlc" ELSE "poll"

\* the mutant of checkpoint: the loop never looks at the flag
checkpoint_FlagIgnored(flag, deleted) == "poll"

\* what the top of the loop does with the flag it loads; `deleted` is
\* whether the delete_task call it then makes succeeds
checkpoint(flag, deleted) ==
    IF flag THEN (IF deleted THEN "ctrlc" ELSE "err") ELSE "poll"

\* the checkpoint at the top of the loop (app.rs 176-180)
Checkpoint ==
    /\ pc = "check"
    /\ \E deleted \in BOOLEAN :
        LET c == checkpoint(abort, deleted)
        IN  IF c = "poll"
            THEN /\ pc' = "poll"
                 /\ UNCHANGED <<calls, replies, frag, outcome, err>>
            ELSE /\ calls' = [calls EXCEPT !.delete_task = @ + 1]
                 /\ replies' = [replies EXCEPT
                                    !.delete_task = IF deleted THEN "ok" ELSE "rpc_err"]
                 /\ IF c = "ctrlc"
                    THEN /\ frag' = "CtrlC"
                         /\ pc' = "combine"
                         /\ UNCHANGED <<outcome, err>>
                    ELSE /\ Fail("cancelling task")
                         /\ UNCHANGED frag
    /\ UNCHANGED <<err_path, late_polls, tmp_dir, timeout_arg, task_timeout, history, input, input_ok, subtasks, abort, chunks, workspace,
                   in_files, task, task_id, old_progress, bar_pos, last_resp,
                   files, opened, out_wav>>

\* the rest of one iteration: get_task, progress, status (app.rs 182-218).
\* A task the backend reports Finished has run every subtask.
Poll ==
    /\ pc = "poll"
    /\ calls.get_task < MaxPolls
    /\ calls' = [calls EXCEPT !.get_task = @ + 1]
    /\ late_polls' = late_polls + (IF abort THEN 1 ELSE 0)
    /\ \E resp \in Responses :
        LET h == handle_response(resp, old_progress, bar_pos,
                                 Len(task.expected_output_paths))
        IN  /\ last_resp' = resp
            /\ history' = NextHistory(history, resp, old_progress, h.bar - bar_pos)
            /\ old_progress' = h.old
            /\ bar_pos' = h.bar
            /\ files' = IF resp.kind = "info" /\ resp.status = "Finished"
                        THEN BackendOutputs(in_files)
                        ELSE files
            /\ IF h.next = "err"
               THEN Fail(h.err) /\ UNCHANGED frag
               ELSE IF h.next = "break"
               THEN pc' = "combine" /\ frag' = "Success" /\ UNCHANGED <<outcome, err>>
               ELSE pc' = "check" /\ UNCHANGED <<frag, outcome, err>>
    /\ UNCHANGED <<err_path, tmp_dir, timeout_arg, task_timeout, replies, input, input_ok, subtasks, abort, chunks, workspace,
                   in_files, task, task_id, opened, out_wav>>

\* combine_output (app.rs 224-289), and the return of run (app.rs 299-301)
CombineOutput ==
    /\ pc = "combine"
    /\ \E create_ok \in BOOLEAN :
        LET c == combine_output(frag, task.expected_output_paths, files,
                                out_wav, create_ok)
        IN  /\ opened' = c.opened
            /\ out_wav' = c.out
            /\ outcome' = c.res
            /\ err' = c.err
    /\ pc' = "done"
    /\ UNCHANGED <<err_path, late_polls, tmp_dir, timeout_arg, task_timeout, replies, history, input, input_ok, subtasks, abort, frag, chunks, workspace,
                   in_files, task, task_id, calls, old_progress, bar_pos,
                   last_resp, files>>

\* another run of the program that computed the same workspace path (it
\* started within the same second) makes its own fs::create_dir call
OtherRun ==
    /\ pc # "done"
    /\ tmp_dir = "absent"
    /\ \E io_ok \in BOOLEAN :
        tmp_dir' = IF create_dir(FALSE, io_ok) THEN "other" ELSE tmp_dir
    /\ UNCHANGED <<err_path, late_polls, timeout_arg, task_timeout, replies,
                   history, input, input_ok, subtasks, abort, pc, frag,
                   chunks, workspace, in_files, task, task_id, calls,
                   old_progress, bar_pos, last_resp, files, opened, out_wav,
                   outcome, err>>

Next ==
    \/ CtrlC
    \/ OtherRun
    \/ SplitInput
    \/ PrepareWorkspace
    \/ BuildTask
    \/ Connect
    \/ CreateTask
    \/ Checkpoint
    \/ Poll
    \/ CombineOutput

\* a whole run of the program
Spec == Init /\ [][Next]_vars

(***************************************************************************)
(* A whole run on a short input, with its main thread scheduled fairly.    *)
(***************************************************************************)
InitLoop ==
    /\ input \in {RunText(wc) : wc \in 0..MaxLoopWords}
    /\ input_ok \in BOOLEAN
    /\ subtasks \in 1..MaxLoopWords
    /\ pc = "split"
    /\ frag = "none"
    /\ files = <<>>
    /\ task = EmptyTask
    /\ Configured
    /\ tmp_dir = "absent"
    /\ Fresh

\* the steps of the thread that runs App::run; its calls return
MainThread ==
    \/ SplitInput
    \/ PrepareWorkspace
    \/ BuildTask
    \/ Connect
    \/ CreateTask
    \/ Checkpoint
    \/ Poll
    \/ CombineOutput

SpecLoop == InitLoop /\ [][Next]_vars /\ WF_vars(MainThread)

(***************************************************************************)
(* The partitioner alone, on every short text.                             *)
(***************************************************************************)
Alphabet == {97, 98, 32, 10}

Texts == UNION {[1..l -> Alphabet] : l \in 0..MaxTextLen}

InitSplit ==
    /\ input \in Texts
    /\ input_ok = TRUE
    /\ subtasks \in 1..MaxSplit
    /\ pc = "split"
    /\ frag = "none"
    /\ files = <<>>
    /\ task = EmptyTask
    /\ Configured
    /\ tmp_dir = "absent"
    /\ Fresh

SpecSplit == InitSplit /\ [][SplitInput]_vars

(***************************************************************************)
(* The aggregator alone, on every small set of result artifacts.           *)
(***************************************************************************)
Samples == UNION {[1..l -> {1, 2}] : l \in 0..MaxSamples}

Artifacts == {NoFile} \cup {Wav(WavSpec(r), ss) : r \in {8000, 16000}, ss \in Samples}

\* the expected output paths of a task of k subtasks, k <= 10
OutPaths(k) == [i \in 1..k |-> Path("out", Decimal(i - 1), "in.wav")]

InitCombine ==
    /\ input = <<>>
    /\ input_ok = TRUE
    /\ subtasks = 1
    /\ pc = "combine"
    /\ frag = "Success"
    /\ \E k \in 0..MaxArtifacts :
        /\ task = [subtasks_map |-> <<>>, expected_output_paths |-> OutPaths(k)]
        /\ files \in [{OutPaths(k)[i] : i \in 1..k} -> Artifacts]
    /\ Configured
    /\ tmp_dir = "absent"
    /\ Fresh

SpecCombine == InitCombine /\ [][CombineOutput]_vars

(***************************************************************************)
(* Timeout::from_str on its own, on texts of fields joined by ':'.         *)
(***************************************************************************)
\* "", "0", "00", "000", "1", "01", "10", "23", "24", "59", "60", "61",
\* " 1", "1 ", "a"
FieldStrings ==
    {<<>>, <<48>>, <<48, 48>>, <<48, 48, 48>>, <<49>>, <<48, 49>>, <<49, 48>>,
     <<50, 51>>, <<50, 52>>, <<53, 57>>, <<54, 48>>, <<54, 49>>,
     <<32, 49>>, <<49, 32>>, <<97>>}

RECURSIVE JoinColon(_)
JoinColon(fs) ==
    IF fs = <<>> THEN <<>>
    ELSE IF Len(fs) = 1 THEN fs[1]
    ELSE fs[1] \o <<58>> \o JoinColon(Tail(fs))

TimeoutArgs ==
    {JoinColon(fs) : fs \in UNION {[1..k -> FieldStrings] : k \in 0..MaxFields}}

InitTimeout ==
    /\ input = <<>>
    /\ input_ok = TRUE
    /\ subtasks = 1
    /\ pc = "parse"
    /\ frag = "none"
    /\ files = <<>>
    /\ task = EmptyTask
    /\ timeout_arg \in TimeoutArgs
    /\ task_timeout = NoTimeout
    /\ tmp_dir = "absent"
    /\ Fresh

\* structopt's parse(try_from_str) of the --task_timeout option
ParseTimeout ==
    /\ pc = "parse"
    /\ task_timeout' = from_str(timeout_arg)
    /\ pc' = "parsed"
    /\ UNCHANGED <<err_path, late_polls, tmp_dir, timeout_arg, replies, history, input, input_ok, subtasks,
                   abort, frag, chunks, workspace, in_files, task, task_id,
                   calls, old_progress, bar_pos, last_resp, files, opened,
                   out_wav, outcome, err>>

SpecTimeout == InitTimeout /\ [][ParseTimeout]_vars

(***************************************************************************)
(* Properties.                                                             *)
(***************************************************************************)
RECURSIVE Concat(_)
\* the concatenation of a sequence of sequences
Concat(ss) == IF ss = <<>> THEN <<>> ELSE Head(ss) \o Concat(Tail(ss))

RECURSIVE SumLen(_)
SumLen(ss) == IF ss = <<>> THEN 0 ELSE Len(Head(ss)) + SumLen(Tail(ss))

WordCount == Len(split_whitespace(input))

\* split_input has returned Ok
SplitReturned == pc = "workspace" /\ frag = "Success"

\* C1: for 1 <= n <= wordCount the partitioner returns at most n chunks, and
\* the words of the chunks, in chunk order, are exactly the words of the
\* text.
C1_PartitionKeepsWords ==
    (SplitReturned /\ subtasks <= WordCount) =>
        /\ Len(chunks) <= subtasks
        /\ Concat([i \in 1..Len(chunks) |-> split_whitespace(chunks[i])])
               = split_whitespace(input)

\* C1 witness: three or more words in two chunks of unequal length
C1_Witness ==
    /\ SplitReturned
    /\ subtasks = 2
    /\ WordCount = 3
    /\ Len(chunks) = 2
    /\ Len(split_whitespace(chunks[2])) = 1

\* C2: when n exceeds the word count the partitioner fails and returns no
\* chunks.
C2_TooManySubtasksRejected ==
    (pc # "split" /\ subtasks > WordCount) =>
        (outcome = "Err" /\ chunks = <<>> /\ frag # "Success")

\* C3: the i-th artifact the aggregator reads is the output artifact of the
\* i-th chunk added to the TaskBuilder, for every number of chunks.
C3_MergeInChunkOrder ==
    (pc = "done" /\ outcome = "Success") =>
        /\ Len(opened) = Len(chunks)
        /\ \A i \in 1..Len(chunks) :
            /\ opened[i] = Path("out", Decimal(i - 1), "in.wav")
            /\ ReadFile(files, opened[i]) = Flite(chunks[i])

\* the result artifacts of the task, in the order of its paths
ArtifactsInOrder ==
    [i \in 1..Len(task.expected_output_paths) |->
        ReadFile(files, task.expected_output_paths[i])]

\* every result artifact exists, and there is at least one
AllPresent ==
    /\ Len(ArtifactsInOrder) >= 1
    /\ \A i \in 1..Len(ArtifactsInOrder) : ArtifactsInOrder[i].exists

SameSpec == \A i \in 1..Len(ArtifactsInOrder) :
                ArtifactsInOrder[i].spec = ArtifactsInOrder[1].spec

\* combine_output has returned, and the output file could be created
Combined == pc = "done" /\ frag = "Success" /\ err # "creating WAVE file"

BeforeMismatch ==
    LET bad == {i \in 1..Len(ArtifactsInOrder) :
                    ArtifactsInOrder[i].spec # ArtifactsInOrder[1].spec}
        first_bad == CHOOSE i \in bad : \A j \in bad : i <= j
    IN  SubSeq(ArtifactsInOrder, 1, first_bad - 1)

\* C5: when an artifact after the first has another spec than the first,
\* combine fails and appends neither that artifact's samples nor any later
\* artifact's.
C5_MismatchRejected ==
    (Combined /\ AllPresent /\ ~SameSpec) =>
        /\ outcome = "Err"
        /\ out_wav.samples
               = Concat([i \in 1..Len(BeforeMismatch) |-> BeforeMismatch[i].samples])

\* a step of the main thread that leaves the checkpoint with the flag set
CancelStep == pc = "check" /\ abort /\ pc' # "check"

\* the flag is read before every get_task, a set flag makes the checkpoint
\* issue one delete_task and no get_task, and no get_task follows a
\* delete_task
CheckpointOrder ==
    /\ (calls'.get_task # calls.get_task => pc = "poll")
    /\ (pc' = "poll" /\ pc # "poll" => pc = "check" /\ ~abort)
    /\ (CancelStep => /\ calls'.delete_task = calls.delete_task + 1
                      /\ calls'.get_task = calls.get_task)
    /\ (calls.delete_task > 0 => /\ calls'.get_task = calls.get_task
                                 /\ calls'.delete_task = 1)

\* C6 as stated: at the checkpoint a set flag leads to exactly one
\* delete_task, no get_task in that iteration or afterwards, and the loop is
\* left with the cancellation outcome.
C6_CancelAtCheckpoint ==
    [][/\ CheckpointOrder
       /\ (CancelStep => frag' = "CtrlC" /\ pc' = "combine" /\ outcome' = "running")]_vars

\* C6 amended: ... and the loop is left with the cancellation outcome when
\* delete_task succeeds, and with the error "cancelling task" when it fails.
C6_CancelAtCheckpointOrError ==
    [][/\ CheckpointOrder
       /\ (CancelStep =>
            \/ frag' = "CtrlC" /\ pc' = "combine" /\ outcome' = "running"
            \/ frag' # "CtrlC" /\ pc' = "done" /\ outcome' = "Err"
                  /\ err' = "cancelling task")]_vars

\* C6 witness: the flag was seen after a poll and the task was deleted
C6_Witness ==
    /\ frag = "CtrlC"
    /\ calls.get_task >= 1
    /\ calls.delete_task = 1

\* C7: once send_to_golem has returned CtrlC, combine_output opens no
\* artifact and creates no output file, and run returns Ok(CtrlC).
C7_CancelledRunIsCtrlC ==
    frag = "CtrlC" =>
        /\ opened = <<>>
        /\ out_wav = NoFile
        /\ pc \in {"combine", "done"}
        /\ (pc = "combine" => outcome = "running")
        /\ (pc = "done" => outcome = "CtrlC" /\ err = "")

\* C7 witness: a cancelled run of a task with result paths has returned
C7_Witness ==
    /\ frag = "CtrlC"
    /\ pc = "done"
    /\ outcome = "CtrlC"
    /\ Len(task.expected_output_paths) >= 2

\* the latest get_task response is a task info with status Finished
FinishedSeen == last_resp.kind = "info" /\ last_resp.status = "Finished"

\* the loop was left successfully and the task's paths went to the
\* aggregator, which opened them in order
HandedToAggregator ==
    /\ frag = "Success"
    /\ pc \in {"combine", "done"}
    /\ (pc = "combine" => outcome = "running")
    /\ (pc = "done" =>
            /\ outcome \in {"Success", "Err"}
            /\ opened = SubSeq(task.expected_output_paths, 1, Len(opened))
            /\ (outcome = "Success" => opened = task.expected_output_paths)
            /\ (outcome = "Err" =>
                    err \in {"creating WAVE file",
                             "combining results: no results received from Golem"}))

\* C8 as stated: every response with status Finished ends the loop
\* successfully and hands the task's paths to the aggregator, also one
\* without a progress value.
C8_FinishedEndsLoop == FinishedSeen => HandedToAggregator

\* C8 amended: every response with status Finished that carries a progress
\* value ends the loop successfully and hands the task's paths to the
\* aggregator; one without a progress value ends the run with the error
\* "reading task's progress".
C8_FinishedWithProgressEndsLoop ==
    FinishedSeen =>
        IF last_resp.progress # <<>>
        THEN HandedToAggregator
        ELSE /\ pc = "done"
             /\ outcome = "Err"
             /\ err = "reading task's progress"
             /\ opened = <<>>

\* C8 witness: a Finished response with a progress value, and the
\* aggregator has combined two or more artifacts
C8_Witness ==
    /\ FinishedSeen
    /\ last_resp.progress # <<>>
    /\ pc = "done"
    /\ outcome = "Success"
    /\ Len(opened) >= 2

\* the latest get_task response is a task info with status Aborted or Timeout
FailedSeen == last_resp.kind = "info" /\ last_resp.status \in {"Aborted", "Timeout"}

\* C9: a response with status Aborted or Timeout ends the run with an error
\* in that iteration; no backend call follows and the aggregator never runs.
C9_AbortedOrTimeoutEndsRun ==
    /\ [](FailedSeen =>
            /\ pc = "done"
            /\ outcome = "Err"
            /\ frag = "Success"
            /\ opened = <<>>
            /\ out_wav = NoFile
            /\ calls.delete_task = 0
            /\ calls.create_task = 1)
    /\ [][FailedSeen => UNCHANGED <<calls, opened, out_wav, outcome>>]_vars

\* C9 witness: the second poll answered Timeout with a progress value
C9_Witness ==
    /\ FailedSeen
    /\ last_resp.status = "Timeout"
    /\ last_resp.progress # <<>>
    /\ calls.get_task = 2

\* C10: but for a Restarted response, a poll never lowers old_progress, and
\* a poll whose progress is lower than or equal to old_progress emits no
\* delta and leaves old_progress unchanged.
C10_TrackedProgressIsHighest ==
    [][(calls'.get_task # calls.get_task /\ last_resp'.status # "Restarted") =>
          /\ old_progress' >= old_progress
          /\ (last_resp'.progress # <<>> =>
                (last_resp'.progress[1] <= old_progress =>
                    old_progress' = old_progress /\ bar_pos' = bar_pos))]_vars

\* a get_task step answered by a task info that carries a progress value and
\* the status Restarted
RestartStep ==
    /\ calls'.get_task # calls.get_task
    /\ last_resp'.kind = "info"
    /\ last_resp'.status = "Restarted"
    /\ last_resp'.progress # <<>>

\* C11: a Restarted response is not an error: it sets old_progress to 0,
\* brings the position of the progress bar back to 0, and the loop goes on.
C11_RestartResetsSink ==
    [][RestartStep =>
          /\ old_progress' = 0
          /\ bar_pos' = 0
          /\ pc' = "check"
          /\ outcome' = "running"]_vars

NumTasks == Len(task.expected_output_paths)

\* C12: when the progress values never decrease but across one Restarted
\* response and the task finishes at progress 1.0, what the bar was given
\* after the reset sums to its total, and the bar ends exactly at its total.
C12_DeltasSumToFinalProgress ==
    (FinishedSeen /\ last_resp.progress = <<100>> /\ history.ok /\ history.resets = 1) =>
        /\ history.since_reset = NumTasks
        /\ bar_pos = NumTasks

\* create_task was accepted, but its response carried no task id
NoIdReply == replies.create_task = "no_id"

\* C13: when the backend accepts create_task but its response has no task
\* id, the run has ended with the error of the id extraction, and no
\* get_task or delete_task call was made and no artifact was opened.
C13_MissingTaskIdEndsRun ==
    NoIdReply =>
        /\ pc = "done"
        /\ outcome = "Err"
        /\ err = "extracting Golem task's id"
        /\ task_id = <<>>
        /\ calls.get_task = 0
        /\ calls.delete_task = 0
        /\ opened = <<>>

C13_Witness ==
    /\ NoIdReply
    /\ calls.connect = 1
    /\ calls.create_task = 1
    /\ pc = "done"
    /\ outcome = "Err"

\* a call to the backend that send_to_golem waits on has failed
FailedCall ==
    \/ replies.connect = "rpc_err"
    \/ replies.create_task = "rpc_err"
    \/ last_resp.kind = "rpc_err"

\* C14: connect and create_task are each called at most once in a run; once
\* connect, create_task or get_task has failed the run has ended with an
\* error, and no call to the backend follows.
C14_NoRetries ==
    /\ [](/\ calls.connect <= 1
          /\ calls.create_task <= 1
          /\ (FailedCall => pc = "done" /\ outcome = "Err"))
    /\ [][FailedCall => UNCHANGED <<calls, replies, last_resp>>]_vars

C14_Witness ==
    /\ replies.create_task = "rpc_err"
    /\ calls.create_task = 1
    /\ calls.get_task = 0
    /\ pc = "done"
    /\ outcome = "Err"
    /\ err = "creating Golem task"

\* the aggregator has run on a task without expected output paths
CombinedNothing ==
    /\ pc = "done"
    /\ frag = "Success"
    /\ task.expected_output_paths = <<>>

\* C15: combine_output on a task with no expected output path returns the
\* "no results" error; it has opened no artifact and the output file is as
\* it was, neither created nor truncated.
C15_NoResultsIsError ==
    CombinedNothing =>
        /\ outcome = "Err"
        /\ err = "combining results: no results received from Golem"
        /\ opened = <<>>
        /\ out_wav = NoFile

C15_Witness ==
    /\ CombinedNothing
    /\ outcome = "Err"
    /\ opened = <<>>

\* C17: once the run has ended, with whatever outcome, the workspace it
\* created under the temp directory no longer exists.
C17_WorkspaceRemovedAtEnd == pc = "done" => workspace = {}

\* the least integer not below a / b, for a >= 0 and b >= 1
Ceil(a, b) == CHOOSE q \in 0..a : q * b >= a /\ (q - 1) * b < a

\* the number of words of the i-th chunk returned
ChunkWords(i) == Len(split_whitespace(chunks[i]))

\* C19: with wordsPerChunk = ceil(wordCount / n) and at least one word,
\* every chunk returned but the last has wordsPerChunk words, the last has
\* between 1 and wordsPerChunk, no chunk is empty, and when n divides
\* wordCount there are n chunks of wordCount / n words each.
C19_ChunkSizes ==
    (SplitReturned /\ WordCount >= 1) =>
        LET wordsPerChunk == Ceil(WordCount, subtasks)
            last == Len(chunks)
        IN  /\ last >= 1
            /\ \A i \in 1..(last - 1) : ChunkWords(i) = wordsPerChunk
            /\ ChunkWords(last) \in 1..wordsPerChunk
            /\ \A i \in 1..last : chunks[i] # <<>>
            /\ (WordCount % subtasks = 0 =>
                    /\ last = subtasks
                    /\ \A i \in 1..last : ChunkWords(i) * subtasks = WordCount)

\* C19 witness: five words for three subtasks come back as 2, 2 and 1
C19_Witness ==
    /\ SplitReturned
    /\ WordCount = 5
    /\ subtasks = 3
    /\ Len(chunks) = 3
    /\ ChunkWords(1) = 2
    /\ ChunkWords(3) = 1

\* build has returned Ok: send_to_golem is at, or past, the connection
BuildSucceeded == pc = "connect" \/ calls.connect >= 1

\* the names subtask0 .. subtask(k-1), as their numbers
SubtaskNames(k) == {Decimal(i) : i \in 0..(k - 1)}

\* C20: after one add_subtask per chunk and a successful build, the
\* subtasks map has k entries named subtask0..subtask(k-1), there are k
\* expected output paths, one out/subtask<i>/in.wav per entry, the file
\* in/subtask<i>/in.txt holds the i-th chunk added, and every entry has
\* exec_args [in.txt, in.wav] and output_file_paths [in.wav].
C20_DescriptorMatchesChunks ==
    BuildSucceeded =>
        LET k == Len(chunks)
            paths == task.expected_output_paths
        IN  /\ DOMAIN task.subtasks_map = SubtaskNames(k)
            /\ Cardinality(DOMAIN task.subtasks_map) = k
            /\ Len(paths) = k
            /\ {paths[j] : j \in 1..Len(paths)}
                   = {Path("out", nm, "in.wav") : nm \in SubtaskNames(k)}
            /\ DOMAIN in_files = SubtaskNames(k)
            /\ \A i \in 1..k :
                   /\ in_files[Decimal(i - 1)] = chunks[i]
                   /\ Path("in", Decimal(i - 1), "in.txt") \in workspace
            /\ \A nm \in DOMAIN task.subtasks_map :
                   /\ task.subtasks_map[nm].exec_args = <<"in.txt", "in.wav">>
                   /\ task.subtasks_map[nm].output_file_paths = <<"in.wav">>

\* C20 witness: a task built from eleven chunks, subtask10 among them
C20_Witness ==
    /\ BuildSucceeded
    /\ pc = "connect"
    /\ Len(chunks) = 11
    /\ Decimal(10) \in DOMAIN task.subtasks_map
    /\ in_files[Decimal(10)] = chunks[11]

\* from_str has returned
ParseDone == pc = "parsed"

\* two digits, ':', two digits, ':', two digits
WellFormed(s) ==
    /\ Len(s) = 8
    /\ \A i \in {1, 2, 4, 5, 7, 8} : s[i] \in 48..57
    /\ s[3] = 58
    /\ s[6] = 58

\* the number two digits at i and i + 1 of s denote
TwoDigits(s, i) == (s[i] - 48) * 10 + (s[i + 1] - 48)

\* the seconds since midnight a well-formed s denotes
Denoted(s) == TwoDigits(s, 1) * 3600 + TwoDigits(s, 4) * 60 + TwoDigits(s, 7)

\* s is well-formed and denotes a time from 00:00:01 to 23:59:59
InRange(s) ==
    /\ WellFormed(s)
    /\ TwoDigits(s, 1) <= 23
    /\ TwoDigits(s, 4) <= 59
    /\ TwoDigits(s, 7) <= 59
    /\ Denoted(s) >= 1

\* the number of ':' in s
Colons(s) == Cardinality({i \in 1..Len(s) : s[i] = 58})

\* the text "00:00:00"
ZeroText == <<48, 48, 58, 48, 48, 58, 48, 48>>

\* C18 (amended): from_str accepts every well-formed HH:MM:SS text from
\* 00:00:01 to 23:59:59 and returns the time it denotes; it fails on
\* "00:00:00", on a text with fewer than three fields, and on a well-formed
\* text with an hour above 23, a minute above 59 or a second above 60; it
\* never returns the time zero.
C18_AcceptsWellFormed ==
    ParseDone =>
        /\ (InRange(timeout_arg) =>
                /\ task_timeout.ok
                /\ task_timeout.time = [secs |-> Denoted(timeout_arg), frac |-> 0])
        /\ (timeout_arg = ZeroText =>
                /\ ~task_timeout.ok
                /\ task_timeout.err = "Timeout of '00:00:00' is not allowed")
        /\ (Colons(timeout_arg) < 2 => ~task_timeout.ok)
        /\ ((/\ WellFormed(timeout_arg)
             /\ \/ TwoDigits(timeout_arg, 1) > 23
                \/ TwoDigits(timeout_arg, 4) > 59
                \/ TwoDigits(timeout_arg, 7) > 60) => ~task_timeout.ok)
        /\ (task_timeout.ok => task_timeout.time # [secs |-> 0, frac |-> 0])

\* C18: from_str accepts exactly the well-formed HH:MM:SS texts from
\* 00:00:01 to 23:59:59 and returns that time; it fails on "00:00:00", on
\* missing fields and on out-of-range fields, and never returns zero.
C18_AcceptsExactlyWellFormed ==
    ParseDone =>
        /\ (task_timeout.ok <=> InRange(timeout_arg))
        /\ (task_timeout.ok =>
                /\ task_timeout.time = [secs |-> Denoted(timeout_arg), frac |-> 0]
                /\ task_timeout.time.secs >= 1)

\* C18 witness: "23:59:59" is accepted as the last second of the day
C18_Witness ==
    /\ ParseDone
    /\ timeout_arg = <<50, 51, 58, 53, 57, 58, 53, 57>>
    /\ task_timeout.ok
    /\ task_timeout.time = [secs |-> 86399, frac |-> 0]

\* the filesystem operations build has to make for the chunks of this run
RunOps == BuildOps(BTreeOrder(AddSubtasks(TaskBuilder_new, chunks).subtasks))

\* the workspace was created and the run ended with a filesystem error:
\* an operation of build failed
BuildFailed ==
    /\ pc = "done"
    /\ workspace # {}
    /\ err \in {"creating directory", "writing to file"}

\* C21: when an operation of build fails, the error names the path of that
\* operation, the operations before it and no others have left their
\* paths in the workspace, nothing is removed afterwards, and the run has
\* ended with an error without any call to the backend.
C21_BuildFailureStopsRun ==
    /\ [](BuildFailed =>
            /\ outcome = "Err"
            /\ calls = NoCalls
            /\ \E n \in 0..(Len(RunOps) - 1) :
                /\ workspace = {Path("", <<>>, "")} \cup {RunOps[j].path : j \in 1..n}
                /\ err_path = <<RunOps[n + 1].path>>
                /\ err = IF RunOps[n + 1].op = "create_dir"
                         THEN "creating directory" ELSE "writing to file")
    /\ [][BuildFailed => UNCHANGED <<workspace, in_files, calls, outcome, err_path>>]_vars

\* C21 witness: the write of the second chunk's in.txt fails, after the
\* first chunk's was written
C21_Witness ==
    /\ BuildFailed
    /\ Len(chunks) = 2
    /\ err = "writing to file"
    /\ err_path = <<Path("in", Decimal(1), "in.txt")>>
    /\ Path("in", Decimal(0), "in.txt") \in workspace
    /\ calls = NoCalls

\* a step that changes the abort flag
FlagStep == abort' # abort

\* a step in which delete_task is called
DeleteStep == calls'.delete_task # calls.delete_task

\* C22: the Ctrl-C handler only stores true into the abort flag: a step
\* that changes the flag sets it and changes nothing else, so it makes no
\* backend call; a set flag is never cleared; and every delete_task call is
\* made by the loop's thread at its checkpoint, with the flag set.
C22_HandlerOnlySetsFlag ==
    /\ [][FlagStep =>
            /\ abort'
            /\ UNCHANGED <<pc, calls, replies, frag, task_id, last_resp,
                           workspace, in_files, files, opened, out_wav,
                           outcome, err>>]_vars
    /\ [][abort => abort']_vars
    /\ [][DeleteStep =>
            /\ pc = "check"
            /\ abort
            /\ UNCHANGED abort
            /\ calls'.delete_task = calls.delete_task + 1]_vars

\* C22 witness: the flag was set while a get_task call was due, the call
\* was made, and the next checkpoint cancelled the task
C22_Witness ==
    /\ abort
    /\ late_polls = 1
    /\ calls.delete_task = 1
    /\ replies.delete_task = "ok"
    /\ pc = "done"
    /\ outcome = "CtrlC"

\* the loop of send_to_golem is running
InLoop == pc \in {"check", "poll"}

\* a step in which get_task is called
PollStep == calls'.get_task # calls.get_task

\* C23: however the handler interleaves with the loop, at most one get_task
\* call is started after the flag is set; a call that was due when the flag
\* was set is made and its response handled like any other, and the
\* checkpoint that follows calls delete_task instead of get_task.
C23_OnePollAfterAbort ==
    /\ [](late_polls <= 1)
    /\ [][(abort /\ PollStep) =>
            /\ pc = "poll"
            /\ late_polls = 0
            /\ pc' # "poll"
            /\ last_resp' \in Responses
            /\ ~DeleteStep]_vars
    /\ [][(abort /\ pc = "check" /\ pc' # "check") =>
            /\ DeleteStep
            /\ ~PollStep
            /\ ~InLoop']_vars

\* C23 witness: the flag was set between a checkpoint and its get_task
\* call; the call was made and the loop is back at the checkpoint
C23_Witness ==
    /\ abort
    /\ late_polls = 1
    /\ pc = "check"
    /\ calls.get_task >= 2
    /\ calls.delete_task = 0

\* the statuses that end the loop
TerminalStatuses == {"Finished", "Aborted", "Timeout"}

\* the response just read can be handled: it has task info and a progress
WellFormedResp(resp) == resp.kind = "info" /\ resp.progress # <<>>

\* the model makes no further get_task call
Capped == pc = "poll" /\ calls.get_task >= MaxPolls

\* C24: the loop is left only by a get_task step whose response has a
\* terminal status or cannot be handled, or by the delete_task step of a
\* checkpoint that saw the flag; a response with another status and an
\* unset flag lead to the next get_task call, however many were made; and
\* under fair scheduling a terminal status or a set flag ends the loop.
C24_LoopExits ==
    /\ [][(InLoop /\ ~InLoop') =>
            \/ /\ PollStep
               /\ \/ ~WellFormedResp(last_resp')
                  \/ last_resp'.status \in TerminalStatuses
            \/ /\ DeleteStep
               /\ abort]_vars
    /\ [][(PollStep /\ WellFormedResp(last_resp')
                    /\ last_resp'.status \notin TerminalStatuses) =>
            pc' = "check" /\ outcome' = "running"]_vars
    /\ [][(pc = "check" /\ ~abort /\ pc' # "check") => pc' = "poll"]_vars
    /\ [][(PollStep /\ last_resp'.status \in TerminalStatuses) => ~InLoop']_vars
    /\ ((abort /\ InLoop /\ ~Capped) ~> ~InLoop)

\* C24 witness: the backend answered every get_task call the bound allows
\* with a status that is not terminal, and the loop is about to call again
C24_Witness ==
    /\ pc = "poll"
    /\ ~abort
    /\ calls.get_task = MaxPolls
    /\ last_resp.status \in {"Computing", "Restarted"}
    /\ outcome = "running"

\* the aggregator has opened an artifact, or the output file exists
OutputTouched == opened # <<>> \/ out_wav # NoFile

\* a get_task response with status Finished was read and handled
FinishedObserved ==
    /\ WellFormedResp(last_resp)
    /\ last_resp.status = "Finished"
    /\ frag = "Success"

\* C25: an artifact is opened and the output file written only after a
\* response with status Finished was handled: a run that ended any other
\* way (an error before or in the loop, Aborted, Timeout, cancellation)
\* has opened no artifact and has left the output path as it was.
C25_OutputOnlyAfterFinished ==
    /\ [](OutputTouched => FinishedObserved /\ calls.delete_task = 0 /\ pc = "done")
    /\ []((pc = "done" /\ ~FinishedObserved) => opened = <<>> /\ out_wav = NoFile)
    /\ [][(opened' # opened \/ out_wav' # out_wav) =>
            pc = "combine" /\ FinishedObserved]_vars

\* C25 witness: the output was written by a run whose last response was
\* Finished
C25_Witness ==
    /\ pc = "done"
    /\ outcome = "Success"
    /\ FinishedObserved
    /\ out_wav.exists
    /\ Len(opened) = 2

\* this run has got past the creation of its workspace
PastWorkspace == pc \in {"build", "connect", "create", "check", "poll", "combine"}

\* C26: of two runs that compute the same workspace path at most one
\* creates the directory: when the other run has created it, this run
\* ends at its own create_dir with an error that names the path, having
\* written nothing and called the backend not once; a workspace this run
\* uses is one it created itself, and the directory never changes hands.
C26_WorkspaceNotShared ==
    /\ [](tmp_dir = "other" =>
            /\ ~PastWorkspace
            /\ workspace = {}
            /\ in_files = <<>>
            /\ calls = NoCalls
            /\ ((pc = "done" /\ frag = "Success") =>
                    /\ outcome = "Err"
                    /\ err = "creating directory"
                    /\ err_path = <<Path("", <<>>, "")>>))
    /\ [](workspace # {} => tmp_dir = "own")
    /\ [][tmp_dir # "absent" => UNCHANGED tmp_dir]_vars

\* C26 witness: the other run created the directory first and this run's
\* create_dir failed
C26_Witness ==
    /\ tmp_dir = "other"
    /\ pc = "done"
    /\ frag = "Success"
    /\ err = "creating directory"
    /\ workspace = {}

\* the flag was set before the loop's first checkpoint ran: it is set and
\* no get_task call was made or is due
EarlyAbort == abort /\ calls.get_task = 0 /\ pc # "poll"

\* the run has ended after a task was created with the flag set early
EarlyAbortRunEnded == EarlyAbort /\ pc = "done" /\ replies.create_task = "id"

\* C27: a flag set before the first checkpoint does not stop the run from
\* building the workspace and calling create_task; the first checkpoint
\* then calls delete_task, no get_task call is ever made, and the run ends
\* with the cancellation outcome.
C27_EarlyAbortCancels ==
    EarlyAbortRunEnded =>
        /\ workspace # {}
        /\ calls.create_task = 1
        /\ calls.get_task = 0
        /\ calls.delete_task = 1
        /\ outcome = "CtrlC"

\* C27 (amended): as above, but the run ends with the cancellation outcome
\* when the delete_task call succeeds and with the error of the cancel when
\* it fails; a run that ended before create_task did not end as cancelled.
C27_EarlyAbortCancelsOrError ==
    /\ [](EarlyAbortRunEnded =>
            /\ workspace # {}
            /\ calls.connect = 1
            /\ calls.create_task = 1
            /\ calls.get_task = 0
            /\ calls.delete_task = 1
            /\ opened = <<>>
            /\ (replies.delete_task = "ok" => outcome = "CtrlC")
            /\ (replies.delete_task = "rpc_err" =>
                    outcome = "Err" /\ err = "cancelling task"))
    /\ []((pc = "done" /\ outcome = "CtrlC") => replies.create_task = "id")
    /\ [][(abort /\ pc = "check" /\ calls.get_task = 0 /\ pc' # "check") =>
            DeleteStep /\ ~PollStep /\ ~InLoop']_vars
    /\ [][(abort /\ pc \in {"split", "workspace", "build", "connect", "create"}) =>
            ~DeleteStep /\ outcome' # "CtrlC"]_vars

\* C27 witness: Ctrl-C came before the first checkpoint, the task was
\* created all the same and then cancelled without a single get_task call
C27_Witness ==
    /\ EarlyAbortRunEnded
    /\ outcome = "CtrlC"
    /\ calls.create_task = 1
    /\ calls.get_task = 0
    /\ calls.delete_task = 1
    /\ last_resp = NoResponse

\* the loop was left by a get_task step: the call failed, the response had
\* no task info or no progress, or its status was terminal
LoopLeftByPoll ==
    /\ calls.get_task >= 1
    /\ \/ ~WellFormedResp(last_resp)
       \/ last_resp.status \in TerminalStatuses

\* C28: delete_task is called only by a checkpoint that saw the flag set;
\* a run that left the loop through a get_task step (a failed call, a
\* response without task info or progress, Aborted, Timeout, Finished) has
\* made no delete_task call and makes none.
C28_DeleteOnlyOnAbort ==
    /\ [](calls.delete_task > 0 =>
            /\ abort
            /\ calls.delete_task = 1
            /\ ~LoopLeftByPoll
            /\ (frag = "CtrlC" \/ err = "cancelling task"))
    /\ [](LoopLeftByPoll =>
            /\ ~InLoop
            /\ calls.delete_task = 0
            /\ replies.delete_task = "-")
    /\ [][LoopLeftByPoll => ~DeleteStep]_vars

\* C28 witness: get_task failed for a task that was created, and the run
\* ended with the flag set but never seen, and without a delete_task call
C28_Witness ==
    /\ pc = "done"
    /\ task_id = <<"id">>
    /\ last_resp.kind = "rpc_err"
    /\ err = "polling for task"
    /\ abort
    /\ calls.delete_task = 0

\* delete_task was called and failed
CancelFailed == replies.delete_task = "rpc_err"

\* C29: when a checkpoint saw the flag and its delete_task call failed, the
\* run has ended with the error of the cancel, not as cancelled; the call
\* was made once and no backend call follows it.
C29_FailedCancelIsError ==
    /\ [](CancelFailed =>
            /\ abort
            /\ pc = "done"
            /\ outcome = "Err"
            /\ err = "cancelling task"
            /\ frag # "CtrlC"
            /\ calls.delete_task = 1
            /\ opened = <<>>)
    /\ [][CancelFailed => UNCHANGED <<calls, replies, last_resp, outcome, err>>]_vars

\* C29 witness: the cancel failed after two get_task calls
C29_Witness ==
    /\ CancelFailed
    /\ calls.get_task = 2
    /\ calls.delete_task = 1
    /\ pc = "done"
    /\ outcome = "Err"

\* C30: a run on an input of zero words calls create_task not once, and
\* ends with an error, whatever the number of subtasks.
C30_EmptyInputNotSubmitted ==
    WordCount = 0 =>
        /\ calls.create_task = 0
        /\ (pc = "done" => outcome = "Err")

====
